---- MODULE Spec2Model ----
(***************************************************************************)
(* State-machine model of the logfire-censor verification tooling:         *)
(*   validate_logfire.py  - online poller with retry loop and evaluator    *)
(*   analyze_flows.py     - offline capture analysis and evaluator         *)
(*   generate_report.py   - BEFORE.md / AFTER.md report generator          *)
(* Text and bytes are sequences of code points / byte values.              *)
(***************************************************************************)
EXTENDS Integers, Sequences, FiniteSets, TLC

VARIABLES
    prog,       \* which script runs: "validate_logfire" | "analyze_flows" | "generate_report"
    pc,         \* position inside main()
    args,       \* parsed command line
    outcome,    \* "running" | "returned" | "sys_exit" | "traceback"
    exitCode,   \* process exit status, NoExit while running
    stdout,     \* tags of the lines printed so far
    token,      \* LOGFIRE_READ_TOKEN present in the environment
    attempt,    \* loop variable of the retry loop
    result,     \* last value returned by query_logfire_for_string (or None)
    polls,      \* number of query_json calls issued
    sleeps,     \* number of time.sleep(5) calls
    hist,       \* found flag of every poll that returned, in order
    response,   \* the last column-oriented dict query_json returned (or None)
    exists,     \* which capture stores exist on disk
    opened,     \* capture stores opened so far
    idx,        \* number of entries the FlowReader has yielded from the current store
    results,    \* the dict built by analyze_flows
    flow,       \* the entry handled by the last loop iteration
    before_results, after_results,  \* lists built by analyze_flow_file
    written     \* documents written to OUTPUT_DIR

vars == <<prog, pc, args, outcome, exitCode, stdout, token, attempt, result,
          polls, sleeps, hist, response, exists, opened, idx, results, flow,
          before_results, after_results, written>>

procVars   == <<prog, args, token, exists>>
pollVars   == <<attempt, result, polls, sleeps, hist, response>>
flowVars   == <<opened, idx, results, flow>>
reportVars == <<before_results, after_results, written>>

----------------------------------------------------------------------------
(* Bounds of the model *)
MaxRetry == 3       \* largest --retry value explored
MaxRows  == 6       \* largest row count of a columnar response
MaxFlows == 2       \* largest number of entries streamed from one capture store

(* Program constants *)
SampleCap == 5      \* range(min(count, 5))
MsgLimit  == 100    \* result["message"][i][:100]
ExitError == 2      \* sys.exit(2)
ExitTokenMissing == 1   \* sys.exit(1) when LOGFIRE_READ_TOKEN is absent
ArgparseErrorExit == 2  \* argparse's parser.error() status
TracebackExit == 1      \* interpreter status after an uncaught exception
NoExit == 0 - 1

----------------------------------------------------------------------------
(* Python values *)
None    == [some |-> FALSE, val |-> <<>>]
Some(v) == [some |-> TRUE, val |-> v]

Min(a, b) == IF a < b THEN a ELSE b
Max(a, b) == IF a > b THEN a ELSE b

\* str.lower() on the code points used here (ASCII upper case -> lower case)
Lower(s) == [i \in 1..Len(s) |-> IF s[i] >= 65 /\ s[i] <= 90 THEN s[i] + 32 ELSE s[i]]

\* Python's `sub in s` for strings
Contains(sub, s) ==
    \E i \in 0..(Len(s) - Len(sub)) : SubSeq(s, i + 1, i + Len(sub)) = sub

\* s[:n]
Prefix(s, n) == SubSeq(s, 1, Min(Len(s), n))

----------------------------------------------------------------------------
(* validate_logfire.py : query_logfire_for_string *)

Str(n) == [i \in 1..n |-> 120]          \* a message of n characters
SpanName == <<115>>

\* message values a row can carry: None, "", and strings around the 100 limit
MsgPalette == << None, Some(Str(0)), Some(Str(MsgLimit - 1)), Some(Str(MsgLimit)),
                 Some(Str(MsgLimit + 1)), Some(Str(MsgLimit + 30)) >>

ColumnNames == {"start_timestamp", "span_name", "message"}

\* One column of n rows; rows of the message column differ (palette rotated by shift)
Column(c, n, shift) ==
    [i \in 1..n |->
        IF c = "start_timestamp" THEN Some(1000 - i)
        ELSE IF c = "span_name" THEN Some(SpanName)
        ELSE MsgPalette[((i + shift) % Len(MsgPalette)) + 1]]

\* The column-oriented dicts query_json can return: aligned columns keyed by name
Responses ==
    { [c \in cols |-> Column(c, n, shift)] :
        cols \in SUBSET ColumnNames, n \in 0..MaxRows, shift \in 0..(Len(MsgPalette) - 1) }

\* `result["message"][i][:100] if "message" in result and result["message"][i] else None`
SampleMessage(resp, i) ==
    IF "message" \in DOMAIN resp /\ resp["message"][i].some /\ Len(resp["message"][i].val) > 0
    THEN Some(Prefix(resp["message"][i].val, MsgLimit))
    ELSE None

SampleRow(resp, i) ==
    [timestamp |-> IF "start_timestamp" \in DOMAIN resp THEN resp["start_timestamp"][i] ELSE None,
     span_name |-> IF "span_name" \in DOMAIN resp THEN resp["span_name"][i] ELSE None,
     message   |-> SampleMessage(resp, i)]

\* faulty variant: the sample loop runs over every row
SampleCount_Uncapped(count) == count

\* number of sampled rows: range(min(count, 5))
SampleCount(count) == Min(count, SampleCap)

\* the dict returned when query_json returns resp
QueryResult(resp) ==
    IF DOMAIN resp # {} /\ "start_timestamp" \in DOMAIN resp
    THEN LET count == Len(resp["start_timestamp"])
         IN [found |-> count > 0, count |-> count,
             details |-> [i \in 1..SampleCount(count) |-> SampleRow(resp, i)]]
    ELSE [found |-> FALSE, count |-> 0, details |-> <<>>]

----------------------------------------------------------------------------
(* validate_logfire.py : main *)

\* argparse: mutually exclusive group with required=True
GroupError(a) == (a.expect_found /\ a.expect_not_found) \/ (~a.expect_found /\ ~a.expect_not_found)

\* faulty variant: the early exit on a positive result is missing
BreakLoop_NeverOnFound(a, res, att) ==
    a.expect_not_found /\ ~res.found /\ att = a.retry - 1

\* faulty variant: a negative result ends the loop at once
BreakLoop_OnNegative(a, res, att) ==
    \/ a.expect_found /\ res.found
    \/ a.expect_not_found /\ ~res.found

\* the two `break` statements of the retry loop
BreakLoop(a, res, att) ==
    \/ a.expect_found /\ res.found
    \/ a.expect_not_found /\ ~res.found /\ att = a.retry - 1

\* "Validate expectations": the value main() returns
EvaluateLogfire(a, found) ==
    IF a.expect_found
    THEN (IF found THEN 0 ELSE 1)
    ELSE (IF ~found THEN 0 ELSE 1)

Exit(kind, code) ==
    /\ outcome' = kind
    /\ exitCode' = code
    /\ pc' = "done"

LF_ParseArgs ==
    /\ prog = "validate_logfire" /\ pc = "parse_args"
    /\ IF GroupError(args)
       THEN /\ Exit("sys_exit", ArgparseErrorExit)
            /\ UNCHANGED stdout
       ELSE /\ pc' = "check_token"
            /\ UNCHANGED <<outcome, exitCode, stdout>>
    /\ UNCHANGED <<procVars, pollVars, flowVars, reportVars>>

LF_CheckToken ==
    /\ prog = "validate_logfire" /\ pc = "check_token"
    /\ IF ~token
       THEN /\ Exit("sys_exit", ExitTokenMissing)
            /\ stdout' = stdout \o <<"ERROR">>
       ELSE /\ pc' = "loop"
            /\ stdout' = stdout \o <<"INFO">>
            /\ UNCHANGED <<outcome, exitCode>>
    /\ UNCHANGED <<procVars, pollVars, flowVars, reportVars>>

\* one iteration of `for attempt in range(args.retry)` in which the query returns
LF_Attempt ==
    /\ prog = "validate_logfire" /\ pc = "loop" /\ attempt < args.retry
    /\ \E resp \in Responses :
        LET res == QueryResult(resp) IN
        /\ sleeps' = IF attempt > 0 THEN sleeps + 1 ELSE sleeps
        /\ polls' = polls + 1
        /\ result' = Some(res)
        /\ hist' = Append(hist, res.found)
        /\ response' = Some(resp)
        /\ stdout' = IF attempt > 0 THEN stdout \o <<"RETRY">> ELSE stdout
        /\ IF BreakLoop(args, res, attempt)
           THEN pc' = "report" /\ UNCHANGED attempt
           ELSE pc' = "loop" /\ attempt' = attempt + 1
    /\ UNCHANGED <<procVars, outcome, exitCode, flowVars, reportVars>>

\* one iteration in which the query raises: the exception leaves main() uncaught
LF_AttemptRaises ==
    /\ prog = "validate_logfire" /\ pc = "loop" /\ attempt < args.retry
    /\ sleeps' = IF attempt > 0 THEN sleeps + 1 ELSE sleeps
    /\ polls' = polls + 1
    /\ stdout' = (IF attempt > 0 THEN stdout \o <<"RETRY">> ELSE stdout) \o <<"ERROR">>
    /\ Exit("traceback", TracebackExit)
    /\ UNCHANGED <<procVars, attempt, result, hist, response, flowVars, reportVars>>

\* range(args.retry) is exhausted
LF_LoopEnd ==
    /\ prog = "validate_logfire" /\ pc = "loop" /\ attempt >= args.retry
    /\ pc' = "report"
    /\ UNCHANGED <<procVars, pollVars, outcome, exitCode, stdout, flowVars, reportVars>>

\* "Report results" and "Validate expectations"
LF_Evaluate ==
    /\ prog = "validate_logfire" /\ pc = "report"
    /\ IF ~result.some
       THEN \* result is None (no iteration ran): subscripting it raises TypeError
            /\ Exit("traceback", TracebackExit)
            /\ UNCHANGED stdout
       ELSE LET code == EvaluateLogfire(args, result.val.found) IN
            /\ Exit("returned", code)
            /\ stdout' = stdout
                 \o (IF args.verbose /\ Len(result.val.details) > 0 THEN <<"DEBUG">> ELSE <<>>)
                 \o <<IF code = 0 THEN "PASS" ELSE "FAIL">>
    /\ UNCHANGED <<procVars, pollVars, flowVars, reportVars>>

NextLogfire == LF_ParseArgs \/ LF_CheckToken \/ LF_Attempt \/ LF_AttemptRaises
                 \/ LF_LoopEnd \/ LF_Evaluate

----------------------------------------------------------------------------
(* Bytes, text and gzip framing *)

\* bytes.decode("utf-8", errors="replace") on ASCII bytes and lone non-ASCII bytes:
\* each byte >= 128 that starts no valid sequence becomes U+FFFD
DecodeUtf8(bytes) == [i \in 1..Len(bytes) |-> IF bytes[i] < 128 THEN bytes[i] ELSE 65533]

RECURSIVE SumSeq(_)
SumSeq(s) == IF s = <<>> THEN 0 ELSE s[1] + SumSeq(Tail(s))

\* gzip member: two magic bytes, the deflated payload, a checksum trailer
GzipMagic == <<31, 139>>
Deflate(data) == [i \in 1..Len(data) |-> 255 - data[i]]
Inflate(data) == [i \in 1..Len(data) |-> 255 - data[i]]
Crc(data) == SumSeq(data) % 256
GzipCompress(data) == GzipMagic \o Deflate(data) \o <<Crc(data)>>

\* whether gzip.decompress(content) returns (TRUE) or raises (FALSE)
GzipOk(content) ==
    /\ Len(content) >= 3
    /\ SubSeq(content, 1, 2) = GzipMagic
    /\ content[Len(content)] = Crc(Inflate(SubSeq(content, 3, Len(content) - 1)))

GzipDecompress(content) == Inflate(SubSeq(content, 3, Len(content) - 1))

----------------------------------------------------------------------------
(* The entries a capture store can hold *)

HostLogfire == <<108, 111, 103, 102, 105, 114, 101>>   \* "logfire"
HostUpper   == <<76, 111, 103, 70, 105, 114, 101, 46>> \* "LogFire."
HostOther   == <<120, 46, 105, 111>>                    \* "x.io"
Hosts == {HostLogfire, HostUpper, HostOther}

TextHit  == <<120, 97, 66, 121>>    \* "xaBy": contains the marker in another case
TextMiss == <<120, 121>>            \* "xy"
Markers  == {<<>>, <<65, 98>>}      \* "" and "Ab"

\* a gzip member whose trailer does not match its payload
GzipCorrupt(data) == GzipMagic \o Deflate(data) \o <<(Crc(data) + 1) % 256>>

RequestBodies  == {<<>>, TextHit, TextMiss, GzipCompress(TextHit), GzipCorrupt(TextHit)}
ResponseBodies == {<<>>, TextHit}

HTTPFlows ==
    [kind : {"http"}, host : Hosts, method : {"POST", "GET"}, content : RequestBodies,
     response : {None} \cup {Some([content |-> b, status_code |-> 200]) : b \in ResponseBodies}]

\* entries that are not HTTPFlow instances (TCP, DNS, ... flows)
OtherFlows == {[kind |-> "tcp"]}
Entries == HTTPFlows \cup OtherFlows

IsHTTPFlow(f) == f.kind = "http"
pretty_url(f) == f.host

----------------------------------------------------------------------------
(* analyze_flows.py : analyze_flows *)

\* faulty variant: the host filter ignores logfire_only
InScope_IgnoresFlag(f, logfire_only) == Contains(HostLogfire, Lower(f.host))

\* `logfire_only and "logfire" not in host.lower()` decides to skip the flow
InScope(f, logfire_only) == ~(logfire_only /\ ~Contains(HostLogfire, Lower(f.host)))

\* request_content
RequestText(f) == IF Len(f.content) > 0 THEN DecodeUtf8(f.content) ELSE <<>>

\* response_content
ResponseText(f) ==
    IF f.response.some /\ Len(f.response.val.content) > 0
    THEN DecodeUtf8(f.response.val.content)
    ELSE <<>>

\* `search_lower in content.lower()`
Matches(search_string, text) == Contains(Lower(search_string), Lower(text))

RequestMatch(f)  == [type |-> "request", url |-> pretty_url(f), method |-> f.method]
ResponseMatch(f) ==
    [type |-> "response", url |-> pretty_url(f),
     status |-> IF f.response.some THEN Some(f.response.val.status_code) ELSE None]

\* faulty variant: once a match is recorded the remaining flows are skipped
AnalyzeFlow_ShortCircuit(res, f, search_string, logfire_only) ==
    IF res.found \/ ~IsHTTPFlow(f) THEN res
    ELSE LET counted == [res EXCEPT !.total_flows = @ + 1] IN
         IF ~InScope(f, logfire_only) THEN counted
         ELSE LET reqHit == Matches(search_string, RequestText(f))
                  rspHit == Matches(search_string, ResponseText(f))
              IN [counted EXCEPT
                    !.logfire_flows = @ + 1,
                    !.matches = @ \o (IF reqHit THEN <<RequestMatch(f)>> ELSE <<>>)
                                  \o (IF rspHit THEN <<ResponseMatch(f)>> ELSE <<>>),
                    !.found = @ \/ reqHit \/ rspHit]

\* the body of `for flow in reader.stream()` applied to the results dict
AnalyzeFlow(res, f, search_string, logfire_only) ==
    IF ~IsHTTPFlow(f) THEN res
    ELSE LET counted == [res EXCEPT !.total_flows = @ + 1] IN
         IF ~InScope(f, logfire_only) THEN counted
         ELSE LET reqHit == Matches(search_string, RequestText(f))
                  rspHit == Matches(search_string, ResponseText(f))
              IN [counted EXCEPT
                    !.logfire_flows = @ + 1,
                    !.matches = @ \o (IF reqHit THEN <<RequestMatch(f)>> ELSE <<>>)
                                  \o (IF rspHit THEN <<ResponseMatch(f)>> ELSE <<>>),
                    !.found = @ \/ reqHit \/ rspHit]

----------------------------------------------------------------------------
(* analyze_flows.py : main *)

\* faulty variant: the expect-not-found branch returns the codes the wrong way round
EvaluateFlows_Swapped(a, found) ==
    IF a.expect_found
    THEN (IF found THEN 0 ELSE 1)
    ELSE (IF ~found THEN 1 ELSE 0)

\* "Determine exit code based on expectation"
EvaluateFlows(a, found) ==
    IF a.expect_found
    THEN (IF found THEN 0 ELSE 1)
    ELSE (IF ~found THEN 0 ELSE 1)

\* faulty variant: only the both-flags check is made
FlagError_BothOnly(a) == a.expect_found /\ a.expect_not_found

\* the two checks of the expectation flags before any analysis
FlagError(a) == (a.expect_found /\ a.expect_not_found) \/ (~a.expect_found /\ ~a.expect_not_found)

AF_ParseArgs ==
    /\ prog = "analyze_flows" /\ pc = "parse_args"
    /\ IF FlagError(args)
       THEN /\ Exit("sys_exit", ExitError)
            /\ stdout' = stdout \o <<"ERROR">>
       ELSE /\ pc' = "open"
            /\ stdout' = stdout \o <<"Analyzing", "Searching">>
            /\ UNCHANGED <<outcome, exitCode>>
    /\ UNCHANGED <<procVars, pollVars, flowVars, reportVars>>

\* open(flow_file, "rb"): FileNotFoundError -> sys.exit(2)
AF_Open ==
    /\ prog = "analyze_flows" /\ pc = "open"
    /\ IF ~exists["flow_file"]
       THEN /\ Exit("sys_exit", ExitError)
            /\ stdout' = stdout \o <<"ERROR">>
            /\ UNCHANGED opened
       ELSE /\ pc' = "stream"
            /\ opened' = opened \cup {"flow_file"}
            /\ UNCHANGED <<outcome, exitCode, stdout>>
    /\ UNCHANGED <<procVars, pollVars, idx, results, flow, reportVars>>

\* one iteration of the loop over reader.stream()
AF_Flow ==
    /\ prog = "analyze_flows" /\ pc = "stream" /\ idx < MaxFlows
    /\ \E f \in Entries :
        /\ flow' = f
        /\ results' = AnalyzeFlow(results, f, args.search_string, ~args.all_traffic)
    /\ idx' = idx + 1
    /\ UNCHANGED <<procVars, pc, outcome, exitCode, stdout, pollVars, opened, reportVars>>

\* reader.stream() raises on a framing error: `except Exception` -> sys.exit(2)
AF_ReadError ==
    /\ prog = "analyze_flows" /\ pc = "stream"
    /\ Exit("sys_exit", ExitError)
    /\ stdout' = stdout \o <<"ERROR">>
    /\ UNCHANGED <<procVars, pollVars, flowVars, reportVars>>

\* the stream ends: analyze_flows returns and main prints the report and the verdict
AF_Evaluate ==
    /\ prog = "analyze_flows" /\ pc = "stream"
    /\ LET code == EvaluateFlows(args, results.found) IN
        /\ Exit("returned", code)
        /\ stdout' = stdout \o <<"Total", "Logfire", "Found">>
             \o (IF args.verbose /\ Len(results.matches) > 0 THEN <<"Matches">> ELSE <<>>)
             \o <<IF code = 0 THEN "PASS" ELSE "FAIL">>
    /\ UNCHANGED <<procVars, pollVars, flowVars, reportVars>>

NextFlows == AF_ParseArgs \/ AF_Open \/ AF_Flow \/ AF_ReadError \/ AF_Evaluate

----------------------------------------------------------------------------
(* generate_report.py *)

TEST_STRING  == <<65, 98>>     \* stand-in for the literal test prompt
ContextChars == 150            \* extract_snippet(..., context=150)

\* str.find: index of the first occurrence (0-based) or -1
Find(sub, s) ==
    LET hits == {i \in 0..(Len(s) - Len(sub)) : SubSeq(s, i + 1, i + Len(sub)) = sub}
    IN IF hits = {} THEN 0 - 1 ELSE CHOOSE i \in hits : \A j \in hits : i <= j

\* decompress_body: gzip.decompress, else plain decode (decode with errors="replace" never raises)
decompress_body(content) ==
    IF Len(content) = 0 THEN <<>>
    ELSE IF GzipOk(content) THEN DecodeUtf8(GzipDecompress(content))
    ELSE DecodeUtf8(content)

extract_snippet(body, search, context) ==
    LET at == Find(Lower(search), Lower(body))
    IN IF at = 0 - 1 THEN <<>>
       ELSE SubSeq(body, Max(0, at - context) + 1, Min(Len(body), at + Len(search) + context))

ReportEntry(f) ==
    LET body  == decompress_body(f.content)
        found == Contains(Lower(TEST_STRING), Lower(body))
    IN [url |-> pretty_url(f), method |-> f.method, content_length |-> Len(f.content),
        found |-> found,
        snippet |-> IF found THEN extract_snippet(body, TEST_STRING, ContextChars) ELSE <<>>]

\* the body of the loop of analyze_flow_file applied to its results list
ReportFlow(list, f) ==
    IF ~IsHTTPFlow(f) THEN list
    ELSE IF ~Contains(HostLogfire, Lower(f.host)) THEN list
    ELSE IF f.method # "POST" THEN list
    ELSE Append(list, ReportEntry(f))

\* `if not flow_file.exists(): return results`
MissingStoreResults == <<>>

RECURSIVE CountFound(_)
CountFound(list) ==
    IF list = <<>> THEN 0
    ELSE (IF list[1].found THEN 1 ELSE 0) + CountFound(Tail(list))

\* generate_before_md / generate_after_md: the summary table and the closing banner
BeforeDoc(list) ==
    [name |-> "BEFORE.md", sections |-> Len(list), total |-> Len(list),
     sensitive |-> CountFound(list),
     banner |-> IF CountFound(list) > 0 THEN "PROBLEM" ELSE "none"]
AfterDoc(list) ==
    [name |-> "AFTER.md", sections |-> Len(list), total |-> Len(list),
     sensitive |-> CountFound(list),
     banner |-> IF CountFound(list) = 0 THEN "SUCCESS" ELSE "FAILURE"]

CurrentStore == IF pc \in {"before_open", "before_stream"} THEN "NO_SCRUB_FLOWS" ELSE "SCRUB_FLOWS"
AfterStore(p) == IF p \in {"before_open", "before_stream"} THEN "after_open" ELSE "write"

\* analyze_flow_file up to the start of the loop
GR_Open ==
    /\ prog = "generate_report" /\ pc \in {"before_open", "after_open"}
    /\ IF ~exists[CurrentStore]
       THEN /\ pc' = AfterStore(pc)
            /\ before_results' = IF pc = "before_open" THEN MissingStoreResults ELSE before_results
            /\ after_results' = IF pc = "after_open" THEN MissingStoreResults ELSE after_results
            /\ UNCHANGED opened
       ELSE /\ pc' = IF pc = "before_open" THEN "before_stream" ELSE "after_stream"
            /\ opened' = opened \cup {CurrentStore}
            /\ UNCHANGED <<before_results, after_results>>
    /\ idx' = 0
    /\ UNCHANGED <<procVars, outcome, exitCode, stdout, pollVars, results, flow, written>>

\* one iteration of the loop over reader.stream()
GR_Flow ==
    /\ prog = "generate_report" /\ pc \in {"before_stream", "after_stream"} /\ idx < MaxFlows
    /\ \E f \in Entries :
        IF pc = "before_stream"
        THEN before_results' = ReportFlow(before_results, f) /\ UNCHANGED after_results
        ELSE after_results' = ReportFlow(after_results, f) /\ UNCHANGED before_results
    /\ idx' = idx + 1
    /\ UNCHANGED <<procVars, pc, outcome, exitCode, stdout, pollVars, opened, results, flow, written>>

\* reader.stream() raises on a framing error: nothing catches it
GR_ReadError ==
    /\ prog = "generate_report" /\ pc \in {"before_stream", "after_stream"}
    /\ Exit("traceback", TracebackExit)
    /\ UNCHANGED <<procVars, stdout, pollVars, flowVars, reportVars>>

\* the stream ends: analyze_flow_file returns its list
GR_EndOfStream ==
    /\ prog = "generate_report" /\ pc \in {"before_stream", "after_stream"}
    /\ pc' = AfterStore(pc)
    /\ UNCHANGED <<procVars, outcome, exitCode, stdout, pollVars, flowVars, reportVars>>

\* both documents are generated and written; main() returns
GR_Write ==
    /\ prog = "generate_report" /\ pc = "write"
    /\ written' = {BeforeDoc(before_results), AfterDoc(after_results)}
    /\ Exit("returned", 0)
    /\ UNCHANGED <<procVars, stdout, pollVars, flowVars, before_results, after_results>>

NextReport == GR_Open \/ GR_Flow \/ GR_ReadError \/ GR_EndOfStream \/ GR_Write

----------------------------------------------------------------------------
(* Initial states: the command line, the environment and the file system *)

NoFlow == [kind |-> "none"]
EmptyResults == [total_flows |-> 0, logfire_flows |-> 0, matches |-> <<>>, found |-> FALSE]
Stores == {"flow_file", "NO_SCRUB_FLOWS", "SCRUB_FLOWS"}

InitCommon ==
    /\ pc = "parse_args"
    /\ outcome = "running"
    /\ exitCode = NoExit
    /\ stdout = <<>>
    /\ attempt = 0
    /\ result = None
    /\ polls = 0
    /\ sleeps = 0
    /\ hist = <<>>
    /\ response = None
    /\ opened = {}
    /\ idx = 0
    /\ results = EmptyResults
    /\ flow = NoFlow
    /\ before_results = <<>>
    /\ after_results = <<>>
    /\ written = {}

InitLogfire ==
    /\ prog = "validate_logfire"
    /\ args \in [expect_found : BOOLEAN, expect_not_found : BOOLEAN, verbose : BOOLEAN,
                 retry : 0..MaxRetry, all_traffic : {FALSE}, search_string : {<<>>}]
    /\ token \in BOOLEAN
    /\ exists = [s \in Stores |-> FALSE]
    /\ InitCommon

InitFlows ==
    /\ prog = "analyze_flows"
    /\ args \in [expect_found : BOOLEAN, expect_not_found : BOOLEAN, verbose : BOOLEAN,
                 retry : {0}, all_traffic : BOOLEAN, search_string : Markers]
    /\ token = FALSE
    /\ exists \in {[s \in Stores |-> s = "flow_file" /\ b] : b \in BOOLEAN}
    /\ InitCommon

InitReport ==
    /\ prog = "generate_report"
    /\ args = [expect_found |-> FALSE, expect_not_found |-> FALSE, verbose |-> FALSE,
               retry |-> 0, all_traffic |-> FALSE, search_string |-> <<>>]
    /\ token = FALSE
    /\ exists \in {[s \in Stores |-> (s = "NO_SCRUB_FLOWS" /\ b1) \/ (s = "SCRUB_FLOWS" /\ b2)] :
                     b1 \in BOOLEAN, b2 \in BOOLEAN}
    /\ InitCommon

\* generate_report.py takes no command line
GR_Start ==
    /\ prog = "generate_report" /\ pc = "parse_args"
    /\ pc' = "before_open"
    /\ UNCHANGED <<procVars, outcome, exitCode, stdout, pollVars, flowVars, reportVars>>

Init == InitLogfire \/ InitFlows

Next == NextLogfire \/ NextFlows

\* the two validators (validate_logfire.py and analyze_flows.py)
Spec == Init /\ [][Next]_vars

InitAll == InitLogfire \/ InitFlows \/ InitReport

NextAll == NextLogfire \/ NextFlows \/ GR_Start \/ NextReport

\* the validators and the report generator
SpecAll == InitAll /\ [][NextAll]_vars
----------------------------------------------------------------------------
(* Properties *)

LogfireRun == prog = "validate_logfire"
FlowsRun   == prog = "analyze_flows"
ReportRun  == prog = "generate_report"
Done       == pc = "done"
Printed(tag) == \E i \in 1..Len(stdout) : stdout[i] = tag
VerdictPrinted == Printed("PASS") \/ Printed("FAIL")

\* every poll issued so far returned (no query_json call raised)
NoQueryFailure == polls = Len(hist)
ExpectFoundRun ==
    LogfireRun /\ args.expect_found /\ ~args.expect_not_found /\ token /\ args.retry >= 1
ExpectNotFoundRun ==
    LogfireRun /\ args.expect_not_found /\ ~args.expect_found /\ token /\ args.retry >= 1

\* C1: in an ExpectFound run with N >= 1 retries and no query failure, no poll and
\* no sleep follows a poll whose result has found = true; that result is the one
\* evaluated and the run returns 0 (Pass); if no poll finds the string, exactly N
\* polls are issued and the run returns 1 (Fail).
C1_StopsAtFirstFound ==
    (ExpectFoundRun /\ NoQueryFailure) =>
        /\ \A i \in 1..(Len(hist) - 1) : ~hist[i]
        /\ polls <= args.retry
        /\ sleeps = Max(polls - 1, 0)
        /\ pc \in {"report", "done"} =>
             /\ polls >= 1
             /\ result.some /\ result.val.found = hist[Len(hist)]
             /\ ~hist[Len(hist)] => polls = args.retry
        /\ Done =>
             /\ outcome = "returned"
             /\ exitCode = (IF hist[Len(hist)] THEN 0 ELSE 1)
             /\ Printed(IF hist[Len(hist)] THEN "PASS" ELSE "FAIL")

\* results [not-found, found] with N = 3: two polls, one sleep, Pass
C1_Witness ==
    /\ ExpectFoundRun /\ NoQueryFailure /\ Done
    /\ args.retry = 3 /\ hist = <<FALSE, TRUE>>
    /\ polls = 2 /\ sleeps = 1 /\ exitCode = 0

\* C2: in an ExpectNotFound run with N >= 1 retries and no query failure the loop
\* never ends before the N-th poll, whatever the results; the verdict is decided by
\* the N-th result alone: the run returns 0 (Pass) iff that result has found = false.
C2_LastAttemptDecides ==
    (ExpectNotFoundRun /\ NoQueryFailure) =>
        /\ polls <= args.retry
        /\ sleeps = Max(polls - 1, 0)
        /\ pc \in {"report", "done"} =>
             /\ polls = args.retry
             /\ result.some /\ result.val.found = hist[args.retry]
        /\ Done =>
             /\ outcome = "returned"
             /\ exitCode = (IF ~hist[args.retry] THEN 0 ELSE 1)
             /\ Printed(IF ~hist[args.retry] THEN "PASS" ELSE "FAIL")

\* results [found, found, not-found] with N = 3: three polls, Pass
C2_Witness ==
    /\ ExpectNotFoundRun /\ NoQueryFailure /\ Done
    /\ args.retry = 3 /\ hist = <<TRUE, TRUE, FALSE>>
    /\ polls = 3 /\ exitCode = 0

\* C3: once a poll has failed the run is over, no verdict is printed, and the
\* exit status is neither 0 nor 1.
C3_QueryFailureIsDistinct ==
    (LogfireRun /\ polls > Len(hist)) =>
        /\ Done
        /\ polls = Len(hist) + 1
        /\ ~VerdictPrinted
        /\ exitCode \notin {0, 1}

\* C4: in both validators a run that reaches evaluation exits 0 exactly when
\* (ExpectFound and found) or (ExpectNotFound and not found), and 1 otherwise.
C4_TruthTable ==
    (Done /\ outcome = "returned" /\ (LogfireRun \/ FlowsRun)) =>
        LET found == IF LogfireRun THEN result.val.found ELSE results.found
            met   == (args.expect_found /\ found) \/ (args.expect_not_found /\ ~found)
        IN /\ exitCode = (IF met THEN 0 ELSE 1)
           /\ exitCode # 2
           /\ Printed(IF met THEN "PASS" ELSE "FAIL")

\* an offline run that expected absence and found the string: Fail
C4_Witness ==
    /\ FlowsRun /\ Done /\ outcome = "returned"
    /\ args.expect_not_found /\ results.found /\ exitCode = 1

BothOrNeither(a) == a.expect_found = a.expect_not_found

\* C5: with both expectation flags or neither, neither validator opens the
\* capture store or issues a poll, no verdict is printed, and the run ends with
\* exit status 2.
C5_FlagConflictIsConfigError ==
    ((LogfireRun \/ FlowsRun) /\ BothOrNeither(args)) =>
        /\ pc \in {"parse_args", "done"}
        /\ polls = 0 /\ opened = {} /\ idx = 0
        /\ ~VerdictPrinted
        /\ Done => (outcome = "sys_exit" /\ exitCode = 2)

\* analyze_flows started with neither flag has exited with status 2
C5_Witness ==
    /\ FlowsRun /\ Done /\ ~args.expect_found /\ ~args.expect_not_found
    /\ exists["flow_file"] /\ exitCode = 2 /\ opened = {}

\* C6: without the read token the online run ends with exit status 2 and no poll
\* is issued.
C6_MissingTokenIsConfigError ==
    (LogfireRun /\ ~BothOrNeither(args) /\ ~token) =>
        /\ polls = 0
        /\ Done => exitCode = 2

\* a capture store a run needs is absent
MissingStore ==
    \/ FlowsRun /\ ~BothOrNeither(args) /\ ~exists["flow_file"]
    \/ ReportRun /\ (~exists["NO_SCRUB_FLOWS"] \/ ~exists["SCRUB_FLOWS"])
\* the reader failed on the framing of an opened capture store
CaptureReadError ==
    \/ FlowsRun /\ outcome = "sys_exit" /\ "flow_file" \in opened
    \/ ReportRun /\ outcome = "traceback"

\* C7: a run whose capture store is missing or fails to parse ends with exit
\* status 2 and emits no report line, no verdict and no summary document.
C7_AllOrNothing ==
    (Done /\ (MissingStore \/ CaptureReadError)) =>
        /\ exitCode = 2
        /\ written = {}
        /\ ~VerdictPrinted /\ ~Printed("Total")

\* C8: when the flow just analysed is in scope and its request body is a gzip
\* member whose decompressed text contains the marker (case-insensitively), the
\* report has found = true and a request match for that flow.
C8_CompressedRequestIsSearched ==
    (/\ FlowsRun /\ flow.kind = "http"
     /\ InScope(flow, ~args.all_traffic)
     /\ GzipOk(flow.content)
     /\ Matches(args.search_string, DecodeUtf8(GzipDecompress(flow.content)))) =>
        /\ results.found
        /\ \E i \in 1..Len(results.matches) : results.matches[i] = RequestMatch(flow)

\* C9: while analyze_flows processes a capture, and in the returned dict,
\* logfire_flows <= total_flows, with equality under --all-traffic; an entry that
\* is not an HTTP flow changes neither counter.
C9_CountersInv ==
    FlowsRun =>
        /\ results.logfire_flows <= results.total_flows
        /\ args.all_traffic => results.logfire_flows = results.total_flows
        /\ results.total_flows <= idx

C9_CountersStep ==
    (FlowsRun /\ idx' = idx + 1 /\ ~IsHTTPFlow(flow')) =>
        /\ results'.total_flows = results.total_flows
        /\ results'.logfire_flows = results.logfire_flows

C9_ScopedAtMostTotal == [](C9_CountersInv) /\ [][C9_CountersStep]_vars

\* with --all-traffic, a non-logfire host and a non-HTTP entry were both read
C9_Witness ==
    /\ FlowsRun /\ Done /\ outcome = "returned" /\ args.all_traffic
    /\ idx = 2 /\ results.total_flows = 1 /\ results.logfire_flows = 1
    /\ flow.kind = "http" /\ flow.host = HostOther

\* C10: the result of one poll has min(count, 5) samples, found = (count > 0),
\* and no sample message longer than 100 characters; a response without the
\* timestamp column gives count 0.
C10_SamplesBounded ==
    (LogfireRun /\ result.some) =>
        LET r == result.val IN
        /\ Len(r.details) = Min(r.count, 5)
        /\ r.found = (r.count > 0)
        /\ \A i \in 1..Len(r.details) :
             r.details[i].message.some => Len(r.details[i].message.val) <= 100
        /\ r.count = (IF "start_timestamp" \in DOMAIN response.val
                      THEN Len(response.val["start_timestamp"]) ELSE 0)

\* more rows than the cap, and a message longer than the limit was cut to it
C10_Witness ==
    /\ LogfireRun /\ result.some /\ result.val.count > 5
    /\ Len(result.val.details) = 5
    /\ "message" \in DOMAIN response.val
    /\ \E i \in 1..5 :
         /\ Len(response.val["message"][i].val) > 100
         /\ Len(result.val.details[i].message.val) = 100
\* the entries the step into the next state appended to results.matches
Appended == SubSeq(results'.matches, Len(results.matches) + 1, Len(results'.matches))

\* the step reads one entry of the capture store in analyze_flows
ReadsFlow == FlowsRun /\ idx' = idx + 1

C11_Step ==
    (ReadsFlow /\ IsHTTPFlow(flow') /\ ~flow'.response.some) =>
        \A i \in 1..Len(Appended) : Appended[i].type # "response"

\* C11: for every marker, the empty string included, a flow without a response
\* never contributes a response match entry to the report.
C11_ResponseEntryHasResponse == [][C11_Step]_vars
\* what one entry of the capture contributes to the matches, in order: nothing
\* unless it is an in-scope HTTP flow, else a request entry if the request text
\* contains the marker, then a response entry if the response text contains it
ExpectedEntries(f) ==
    IF IsHTTPFlow(f) /\ InScope(f, ~args.all_traffic)
    THEN (IF Contains(Lower(args.search_string), Lower(RequestText(f)))
          THEN <<[type |-> "request", url |-> f.host, method |-> f.method]>> ELSE <<>>)
         \o (IF Contains(Lower(args.search_string), Lower(ResponseText(f)))
             THEN <<ResponseMatch(f)>> ELSE <<>>)
    ELSE <<>>

C12_Step ==
    FlowsRun =>
        IF ReadsFlow
        THEN /\ results'.matches = results.matches \o ExpectedEntries(flow')
             /\ results'.total_flows =
                  results.total_flows + (IF IsHTTPFlow(flow') THEN 1 ELSE 0)
             /\ results'.logfire_flows = results.logfire_flows +
                  (IF IsHTTPFlow(flow') /\ InScope(flow', ~args.all_traffic) THEN 1 ELSE 0)
             /\ results'.found = (Len(results'.matches) > 0)
        ELSE results' = results

\* C12: every entry read from the capture, also after a first match, is counted
\* and searched, and appends to the matches exactly its request entry (if the
\* request text contains the marker) followed by its response entry (if the
\* response text contains it); no other step changes the matches, so the final
\* sequence is the concatenation in capture order and earlier entries are never
\* reordered, modified or removed.
C12_AppendOnlyInOrder == [][C12_Step]_vars

\* a second flow was read after a match was already recorded, and appended its
\* request entry followed by its response entry
C12_Witness ==
    /\ FlowsRun /\ Done /\ outcome = "returned" /\ idx = 2
    /\ args.search_string # <<>>
    /\ results.total_flows = 2
    /\ Len(results.matches) = 3
    /\ results.matches[1].type = "response"
    /\ results.matches[2] = RequestMatch(flow)
    /\ results.matches[3] = ResponseMatch(flow)
    /\ results.matches[1].url # flow.host
====
